---- MODULE Spec2Model ----
(***************************************************************************)
(* A model of the agentic RAG assistant: ragService.ts (chunking and       *)
(* keyword retrieval), geminiService.ts (the two calls to the external     *)
(* model) and the state and handlers of the App component in App.tsx.      *)
(*                                                                         *)
(* JavaScript strings that the code takes apart (queries, document         *)
(* contents, ids) are sequences of one-character strings, so that          *)
(* toLowerCase, split, trim, includes and substring are computed the way   *)
(* the code computes them.  Strings the code only passes along (the fixed  *)
(* notices, the text the external model generates) are TLA+ strings.       *)
(* An optional value (a field that may be absent, a value that may be      *)
(* null) is a sequence of length 0 or 1.                                   *)
(***************************************************************************)
EXTENDS Integers, Sequences, FiniteSets, TLC

\* ------------------------------------------------------------------------
\* Bounds of the model

\* documents held at once
MaxDocs == 2
\* queries accepted in one behaviour
MaxTurns == 2
\* length of the queries of the retrieval harness
MaxQueryLen == 7
\* largest topK the retrieval harness passes
MaxTopK == 4
MaxContentLen == 7
MaxRepeatQueryLen == 4
MaxBetween == 2

\* ------------------------------------------------------------------------
\* Characters and the string primitives of JavaScript that the code uses

LowerLetters ==
    <<"a", "b", "c", "d", "e", "f", "g", "h", "i", "j", "k", "l", "m",
      "n", "o", "p", "q", "r", "s", "t", "u", "v", "w", "x", "y", "z">>

UpperLetters ==
    <<"A", "B", "C", "D", "E", "F", "G", "H", "I", "J", "K", "L", "M",
      "N", "O", "P", "Q", "R", "S", "T", "U", "V", "W", "X", "Y", "Z">>

Digits == <<"0", "1", "2", "3", "4", "5", "6", "7", "8", "9">>

Range(f) == {f[i] : i \in DOMAIN f}

WordChars == Range(LowerLetters) \cup Range(UpperLetters) \cup Range(Digits) \cup {"_"}

\* ASCII punctuation and symbols; the grave accent is written by its name
Punctuation ==
    <<"!", "\"", "#", "$", "%", "&", "'", "(", ")", "*", "+", ",", "-",
      ".", "/", ":", ";", "<", "=", ">", "?", "@", "[", "\\", "]", "^",
      "U+0060", "{", "|", "}", "~">>

\* The letters of Latin-1 that have two cases, U+00C0..U+00DE without U+00D7
\* and, in the same order, U+00E0..U+00FE without U+00F7
UpperLatin1 ==
    <<"À", "Á", "Â", "Ã", "Ä", "Å", "Æ", "Ç", "È", "É", "Ê", "Ë", "Ì",
      "Í", "Î", "Ï", "Ð", "Ñ", "Ò", "Ó", "Ô", "Õ", "Ö", "Ø", "Ù", "Ú",
      "Û", "Ü", "Ý", "Þ">>

LowerLatin1 ==
    <<"à", "á", "â", "ã", "ä", "å", "æ", "ç", "è", "é", "ê", "ë", "ì",
      "í", "î", "ï", "ð", "ñ", "ò", "ó", "ô", "õ", "ö", "ø", "ù", "ú",
      "û", "ü", "ý", "þ">>

\* the other characters of U+00A1..U+00FF: toLowerCase leaves them
OtherLatin1 ==
    <<"¡", "¢", "£", "¤", "¥", "¦", "§", "¨", "©", "ª", "«", "¬", "­",
      "®", "¯", "°", "±", "²", "³", "´", "µ", "¶", "·", "¸", "¹", "º",
      "»", "¼", "½", "¾", "¿", "×", "ß", "÷", "ÿ">>

\* A code unit that a string of this module cannot hold is written by its
\* name, "U+" and four hexadecimal digits; the name stands for one character.

\* WhiteSpace and LineTerminator of ECMAScript, what trim strips: tab, line
\* feed, U+000B, form feed, carriage return, space, U+00A0 (written as
\* itself), U+1680, U+2000..U+200A, U+2028, U+2029, U+202F, U+205F, U+3000
\* and U+FEFF
WhiteSpace ==
    {"\t", "\n", "U+000B", "\f", "\r", " ", " ", "U+1680",
     "U+2000", "U+2001", "U+2002", "U+2003", "U+2004", "U+2005", "U+2006",
     "U+2007", "U+2008", "U+2009", "U+200A", "U+2028", "U+2029", "U+202F",
     "U+205F", "U+3000", "U+FEFF"}

\* letters beyond Latin-1 with what toLowerCase makes of them: Greek capital
\* alpha and omega, the ohm, kelvin and angstrom signs, and capital I with dot
\* above, which becomes two code units
LowerBeyondLatin1 ==
    {<<"U+0391", <<"U+03B1">>>>, <<"U+03A9", <<"U+03C9">>>>, <<"U+2126", <<"U+03C9">>>>,
     <<"U+212A", <<"k">>>>, <<"U+212B", <<"å">>>>, <<"U+0130", <<"i", "U+0307">>>>}

UpperBeyondLatin1 == {m[1] : m \in LowerBeyondLatin1}

UpperAscii == Range(UpperLetters)

UpperLatin1Chars == Range(UpperLatin1)

\* the characters of the model that toLowerCase leaves as they are
Caseless ==
    Range(LowerLetters) \cup Range(Digits) \cup {"_"} \cup Range(Punctuation)
        \cup WhiteSpace \cup Range(LowerLatin1) \cup Range(OtherLatin1)
        \cup {"U+03B1", "U+03C9", "U+0307"}

\* String.prototype.toLowerCase on a string of one character of the model:
\* the code units of the result.  The characters of the model are ASCII
\* without its control characters other than white space, U+00A0..U+00FF and
\* the named characters above; toLowerCase is not modelled on any other.
LowerChar(c) ==
    CASE c \in Caseless -> <<c>>
      [] c \in UpperAscii -> <<LowerLetters[CHOOSE i \in 1..26 : UpperLetters[i] = c]>>
      [] c \in UpperLatin1Chars ->
            <<LowerLatin1[CHOOSE i \in DOMAIN UpperLatin1 : UpperLatin1[i] = c]>>
      [] c \in UpperBeyondLatin1 -> (CHOOSE m \in LowerBeyondLatin1 : m[1] = c)[2]

\* Array.prototype.flatMap(x => x), on a sequence of sequences
RECURSIVE Flatten(_)
Flatten(seqs) == IF seqs = <<>> THEN <<>> ELSE Head(seqs) \o Flatten(Tail(seqs))

\* String.prototype.toLowerCase: character by character; none of the
\* characters of the model has a lowercase form that depends on its neighbours
ToLowerCase(s) == Flatten([i \in 1..Len(s) |-> LowerChar(s[i])])

\* the class \W of a regular expression without the u flag: not [A-Za-z0-9_]
IsNonWord(c) == c \notin WordChars

\* String.prototype.trim
RECURSIVE TrimStart(_)
TrimStart(s) ==
    IF s # <<>> /\ Head(s) \in WhiteSpace THEN TrimStart(Tail(s)) ELSE s

RECURSIVE TrimEnd(_)
TrimEnd(s) ==
    IF s # <<>> /\ s[Len(s)] \in WhiteSpace
    THEN TrimEnd(SubSeq(s, 1, Len(s) - 1))
    ELSE s

Trim(s) == TrimEnd(TrimStart(s))

\* String.prototype.includes
Includes(text, term) ==
    \E i \in 0..(Len(text) - Len(term)) : SubSeq(text, i + 1, i + Len(term)) = term

\* String.prototype.substring(start), start counted from 0
Substring(s, start) == SubSeq(s, start + 1, Len(s))

\* s.split(/\W+/): the pieces between the maximal runs of non-word characters;
\* a run at either end leaves an empty piece there, and "" splits to [""]
RECURSIVE SplitNonWordFrom(_, _, _, _)
SplitNonWordFrom(s, i, cur, out) ==
    IF i > Len(s) THEN Append(out, cur)
    ELSE IF ~IsNonWord(s[i]) THEN SplitNonWordFrom(s, i + 1, Append(cur, s[i]), out)
    ELSE IF i > 1 /\ IsNonWord(s[i - 1]) THEN SplitNonWordFrom(s, i + 1, cur, out)
    ELSE SplitNonWordFrom(s, i + 1, <<>>, Append(out, cur))

SplitNonWord(s) == SplitNonWordFrom(s, 1, <<>>, <<>>)

\* s.split(/\n\n+/): the pieces between the maximal runs of two or more newlines;
\* run is the number of newlines read since the last other character
RECURSIVE SplitParagraphsFrom(_, _, _, _, _)
SplitParagraphsFrom(s, i, cur, run, out) ==
    IF i > Len(s)
    THEN IF run >= 2 THEN out \o <<cur, <<>>>>
         ELSE Append(out, cur \o [k \in 1..run |-> "\n"])
    ELSE IF s[i] = "\n" THEN SplitParagraphsFrom(s, i + 1, cur, run + 1, out)
    ELSE IF run >= 2 THEN SplitParagraphsFrom(s, i + 1, <<s[i]>>, 0, Append(out, cur))
    ELSE SplitParagraphsFrom(s, i + 1, (cur \o [k \in 1..run |-> "\n"]) \o <<s[i]>>, 0, out)

SplitParagraphs(s) == SplitParagraphsFrom(s, 1, <<>>, 0, <<>>)

\* Number.prototype.toString for an array index
RECURSIVE NatToString(_)
NatToString(n) ==
    IF n < 10 THEN <<Digits[n + 1]>>
    ELSE NatToString(n \div 10) \o NatToString(n % 10)

\* ------------------------------------------------------------------------
\* ragService.ts

\* Math.random().toString(36).substring(7), on the string r that
\* Math.random().toString(36) produced ("0." and the base-36 digits)
NewId(r) == Substring(r, 7)

\* `${id}-chunk-${idx}`, idx the 0-based position
ChunkId(id, idx) == (id \o <<"-", "c", "h", "u", "n", "k", "-">>) \o NatToString(idx)

\* RawChunks without the filter: every piece of the split is kept
AsRawChunksUnfiltered(content) == SplitParagraphs(content)

\* content.split(/\n\n+/).filter(c => c.trim().length > 0)
RawChunks(content) == SelectSeq(SplitParagraphs(content), LAMBDA c : Len(Trim(c)) > 0)

\* processDocument; r is what Math.random().toString(36) returned.  The
\* timestamp (Date.now()) is display data that no operation reads: left out.
ProcessDocument(title, content, r) ==
    LET id == NewId(r)
        rawChunks == RawChunks(content)
    IN  [id |-> id,
         title |-> title,
         content |-> content,
         chunks |-> [i \in 1..Len(rawChunks) |->
                        [id |-> ChunkId(id, i - 1), docId |-> id, text |-> Trim(rawChunks[i])]]]

\* documents.flatMap(doc => doc.chunks)
AllChunks(documents) == Flatten([i \in 1..Len(documents) |-> documents[i].chunks])

\* QueryTerms with the filter t.length > 1: tokens of 2 characters are kept
AsQueryTermsFromTwo(query) == SelectSeq(SplitNonWord(ToLowerCase(query)), LAMBDA t : Len(t) > 1)

\* query.toLowerCase().split(/\W+/).filter(t => t.length > 2)
QueryTerms(query) == SelectSeq(SplitNonWord(ToLowerCase(query)), LAMBDA t : Len(t) > 2)

\* the forEach over queryTerms: score += 1 for each term the text includes
RECURSIVE ScoreTerms(_, _)
ScoreTerms(text, terms) ==
    IF terms = <<>> THEN 0
    ELSE (IF Includes(text, Head(terms)) THEN 1 ELSE 0) + ScoreTerms(text, Tail(terms))

\* ScoreChunk with the chunk's text not lowercased
AsScoreChunkCaseSensitive(chunk, queryTerms) ==
    [id |-> chunk.id, docId |-> chunk.docId, text |-> chunk.text,
     score |-> ScoreTerms(chunk.text, queryTerms)]

\* the body of the map over allChunks: { ...chunk, score }
ScoreChunk(chunk, queryTerms) ==
    [id |-> chunk.id, docId |-> chunk.docId, text |-> chunk.text,
     score |-> ScoreTerms(ToLowerCase(chunk.text), queryTerms)]

ScoredChunks(query, documents) ==
    LET allChunks == AllChunks(documents)
        queryTerms == QueryTerms(query)
    IN  [i \in 1..Len(allChunks) |-> ScoreChunk(allChunks[i], queryTerms)]

\* CompareScore with its operands exchanged: ascending
AsCompareScoreAscending(a, b) == a.score - b.score

\* the comparator (a, b) => (b.score || 0) - (a.score || 0)
CompareScore(a, b) == b.score - a.score

\* Array.prototype.sort is stable: c goes behind every element that does not
\* compare greater than it
RECURSIVE InsertSorted(_, _)
InsertSorted(sorted, c) ==
    IF sorted = <<>> THEN <<c>>
    ELSE IF CompareScore(Head(sorted), c) <= 0
         THEN <<Head(sorted)>> \o InsertSorted(Tail(sorted), c)
         ELSE <<c>> \o sorted

RECURSIVE SortByScore(_)
SortByScore(chunks) ==
    IF chunks = <<>> THEN <<>>
    ELSE InsertSorted(SortByScore(SubSeq(chunks, 1, Len(chunks) - 1)), chunks[Len(chunks)])

\* Array.prototype.slice(0, n) for n >= 0
Slice0(seq, n) == SubSeq(seq, 1, IF n < Len(seq) THEN n ELSE Len(seq))

\* .filter(c => (c.score || 0) > 0)
PositiveScore(chunks) == SelectSeq(chunks, LAMBDA c : c.score > 0)

\* retrieveChunks
RetrieveChunks(query, documents, topK) ==
    Slice0(PositiveScore(SortByScore(ScoredChunks(query, documents))), topK)

\* the default of the parameter topK
DefaultTopK == 3

\* retrieveChunks on the objects themselves.  A heap is a sequence of objects
\* and the address of an object is its place in it; an array holds the
\* addresses of its elements, a document the address of its chunks array, so
\* that two arrays can hold the same chunk object and a write through one
\* address is seen through every other.

\* a Chunk as processDocument builds it: no score (score?: number)
ChunkObject(chunk) ==
    [kind |-> "chunk", id |-> chunk.id, docId |-> chunk.docId, text |-> chunk.text,
     score |-> <<>>]

ArrayObject(items) == [kind |-> "array", items |-> items]

DocumentObject(doc, chunks) ==
    [kind |-> "document", id |-> doc.id, title |-> doc.title, content |-> doc.content,
     chunks |-> chunks]

\* a new object: the heap with it, and its address
Alloc(heap, object) == [heap |-> Append(heap, object), at |-> Len(heap) + 1]

\* the documents state as objects: for each document its chunk objects, its
\* chunks array and the document object, then the documents array
RECURSIVE StoreDocuments(_, _, _)
StoreDocuments(docs, heap, stored) ==
    IF docs = <<>> THEN Alloc(heap, ArrayObject(stored))
    ELSE LET doc == Head(docs)
             n == Len(heap)
             chunkObjects == [i \in 1..Len(doc.chunks) |-> ChunkObject(doc.chunks[i])]
             chunks == Alloc(heap \o chunkObjects,
                             ArrayObject([i \in 1..Len(doc.chunks) |-> n + i]))
             document == Alloc(chunks.heap, DocumentObject(doc, chunks.at))
         IN  StoreDocuments(Tail(docs), document.heap, Append(stored, document.at))

\* (c.score || 0) of the object at address a
ScoreOrZero(heap, a) == IF heap[a].score = <<>> THEN 0 ELSE heap[a].score[1]

\* documents.flatMap(doc => doc.chunks): a new array that holds the chunk
\* objects of the documents themselves
FlatMapChunks(heap, documents) ==
    LET docs == heap[documents].items
    IN  Alloc(heap, ArrayObject(Flatten([i \in 1..Len(docs) |-> heap[heap[docs[i]].chunks].items])))

\* MapScored with the callback writing the score onto the chunk it is given
\* (chunk.score = score; return chunk): the new array holds the same objects
AsMapScoredInPlace(heap, allChunks, queryTerms) ==
    LET items == heap[allChunks].items
        written == [a \in 1..Len(heap) |->
                       IF \E i \in 1..Len(items) : items[i] = a
                       THEN [heap[a] EXCEPT
                                !.score = <<ScoreTerms(ToLowerCase(heap[a].text), queryTerms)>>]
                       ELSE heap[a]]
    IN  Alloc(written, ArrayObject(items))

\* allChunks.map(chunk => { ...; return { ...chunk, score }; }): a new object
\* for each chunk, with the chunk's fields and the score, and a new array
MapScored(heap, allChunks, queryTerms) ==
    LET items == heap[allChunks].items
        n == Len(heap)
        copies == [i \in 1..Len(items) |->
                      [heap[items[i]] EXCEPT
                          !.score = <<ScoreTerms(ToLowerCase(heap[items[i]].text), queryTerms)>>]]
    IN  Alloc(heap \o copies, ArrayObject([i \in 1..Len(items) |-> n + i]))

\* the stable sort of addresses by (b.score || 0) - (a.score || 0)
RECURSIVE InsertAddress(_, _, _)
InsertAddress(heap, sorted, a) ==
    IF sorted = <<>> THEN <<a>>
    ELSE IF ScoreOrZero(heap, a) - ScoreOrZero(heap, Head(sorted)) <= 0
         THEN <<Head(sorted)>> \o InsertAddress(heap, Tail(sorted), a)
         ELSE <<a>> \o sorted

RECURSIVE SortAddresses(_, _)
SortAddresses(heap, items) ==
    IF items = <<>> THEN <<>>
    ELSE InsertAddress(heap, SortAddresses(heap, SubSeq(items, 1, Len(items) - 1)),
                       items[Len(items)])

\* .sort(...): sorts the array it is called on in place and returns it
SortInPlace(heap, array) ==
    [heap |-> [heap EXCEPT ![array].items = SortAddresses(heap, @)], at |-> array]

\* .filter(c => (c.score || 0) > 0): a new array of the same objects
FilterPositive(heap, array) ==
    Alloc(heap, ArrayObject(SelectSeq(heap[array].items, LAMBDA a : ScoreOrZero(heap, a) > 0)))

\* .slice(0, topK): a new array of the same objects
SliceTop(heap, array, topK) == Alloc(heap, ArrayObject(Slice0(heap[array].items, topK)))

\* retrieveChunks(query, documents, topK) with documents the address of the
\* documents array: the heap after the call and the address of the array it
\* returns
RetrieveChunksOnHeap(heap, documents, query, topK) ==
    LET allChunks == FlatMapChunks(heap, documents)
        scoredChunks == MapScored(allChunks.heap, allChunks.at, QueryTerms(query))
        sorted == SortInPlace(scoredChunks.heap, scoredChunks.at)
        positive == FilterPositive(sorted.heap, sorted.at)
    IN  SliceTop(positive.heap, positive.at, topK)

\* the chunks an array holds, as the caller reads them
ChunksAt(heap, array) ==
    [i \in 1..Len(heap[array].items) |->
        LET object == heap[heap[array].items[i]]
        IN  [id |-> object.id, docId |-> object.docId, text |-> object.text,
             score |-> ScoreOrZero(heap, heap[array].items[i])]]

\* ------------------------------------------------------------------------
\* types.ts and geminiService.ts

\* enum AgentActionType
AgentActionType == {"ANSWER", "SUMMARIZE", "CATEGORIZE", "REPORT"}

\* a property that a parsed object does not have
Undefined == "undefined"

\* What ai.models.generateContent can deliver: the promise rejects (transport
\* or authentication failure), or resolves with a response whose text is
\* absent or present.
Rejected == [ok |-> FALSE, text |-> <<>>]

Resolved(text) == [ok |-> TRUE, text |-> text]

\* texts the classification call can resolve with: an object that conforms to
\* the response schema, one whose type is outside the enum, one without a
\* type, null, and text that is not JSON
ClassifyTexts ==
    {"{\"type\":\"REPORT\",\"reasoning\":\"asks for a deep dive\"}",
     "{\"type\":\"TRANSLATE\",\"reasoning\":\"other\"}",
     "{\"reasoning\":\"no type\"}",
     "null",
     "I think ANSWER"}

ClassifyResponses == {Rejected, Resolved(<<>>)} \cup {Resolved(<<t>>) : t \in ClassifyTexts}

\* texts the generation call can resolve with
GenerateTexts == {"generated text"}

GenerateResponses == {Rejected, Resolved(<<>>)} \cup {Resolved(<<t>>) : t \in GenerateTexts}

\* JSON.parse(response.text) on the texts above: [threw, value], the value null
\* (<<>>) or an object.  An absent text is JSON.parse(undefined), a SyntaxError.
JsonParse(text) ==
    IF text = <<>> THEN [threw |-> TRUE, value |-> <<>>]
    ELSE CASE text[1] = "{\"type\":\"REPORT\",\"reasoning\":\"asks for a deep dive\"}" ->
                [threw |-> FALSE,
                 value |-> <<[type |-> "REPORT", reasoning |-> "asks for a deep dive"]>>]
           [] text[1] = "{\"type\":\"TRANSLATE\",\"reasoning\":\"other\"}" ->
                [threw |-> FALSE, value |-> <<[type |-> "TRANSLATE", reasoning |-> "other"]>>]
           [] text[1] = "{\"reasoning\":\"no type\"}" ->
                [threw |-> FALSE, value |-> <<[type |-> Undefined, reasoning |-> "no type"]>>]
           [] text[1] = "null" -> [threw |-> FALSE, value |-> <<>>]
           [] OTHER -> [threw |-> TRUE, value |-> <<>>]

\* the action of the catch block of determineAction
DefaultAction == [type |-> "ANSWER", reasoning |-> "Defaulting to basic answer."]

\* determineAction, from the point where generateContent settles with resp:
\* the await is outside the try, so a rejection propagates; the try covers
\* JSON.parse alone, and what it parses is returned as it is
DetermineAction(resp) ==
    IF ~resp.ok THEN [threw |-> TRUE, value |-> <<>>]
    ELSE LET parsed == JsonParse(resp.text)
         IN  IF parsed.threw THEN [threw |-> FALSE, value |-> <<DefaultAction>>]
             ELSE [threw |-> FALSE, value |-> parsed.value]

Apology == "I'm sorry, I couldn't process that request."

\* generateResponse, from the point where generateContent settles with resp:
\* response.text || apology
GenerateResponse(resp) ==
    IF ~resp.ok THEN [threw |-> TRUE, value |-> ""]
    ELSE IF resp.text = <<>> \/ resp.text = <<"">> THEN [threw |-> FALSE, value |-> Apology]
    ELSE [threw |-> FALSE, value |-> resp.text[1]]

\* ------------------------------------------------------------------------
\* Inputs of the handlers

\* titles of the add-document form
Titles == {"", "Budget"}

\* contents of the add-document form: empty, and "Abc\n\nab"
Contents ==
    {<<>>,
     <<"A", "b", "c", "\n", "\n", "a", "b">>}

\* what the user types into the query box: empty, blank, "abc?"
Queries ==
    {<<>>,
     <<" ">>,
     <<"a", "b", "c", "?">>}

\* values of Math.random().toString(36): 0.5, 0.125 and a long fraction
RandomStrings ==
    {<<"0", ".", "i">>,
     <<"0", ".", "4", "i">>,
     <<"0", ".", "4", "f", "z", "y", "o", "8", "2", "m", "v", "y", "r">>}

\* ids that deleteDocument is called with
DocIds == {NewId(r) : r \in RandomStrings}

\* ------------------------------------------------------------------------
\* App.tsx: the state of the component and of a running handleSendMessage

VARIABLES
    documents,      \* useState<Document[]>
    messages,       \* useState<ChatMessage[]>
    inputValue,     \* useState('')
    isProcessing,   \* useState(false)
    lastAction,     \* useState(null): null or the last action
    lastRetrieval,  \* useState<Chunk[]>([])
    pc,             \* where handleSendMessage is: "idle", or suspended in
                    \* "classifying" (line 74) or "generating" (line 93)
    userQuery,      \* the local userQuery of the running handler
    closureDocs,    \* the documents the running handler closed over
    action,         \* the local action of the running handler
    retrieved,      \* the local retrieved of the running handler
    calls,          \* the steps the running handler has started, in order
    classifyResp,   \* what the classification call settled with, if it has
    generateResp,   \* what the generation call settled with, if it has
    outcome,        \* the promise of the last handleSendMessage call
    fnQuery, fnDocs, fnTopK, fnScored, fnResult, fnDone,
                    \* the retrieval harness: arguments and results of a
                    \* direct call of retrieveChunks
    fnBetween,      \* how many other retrievals ran on fnDocs since that call
    fnAgain,        \* what repeating that call returned, if it was repeated
    heap,           \* the objects of the repeated-retrieval harness
    heapDocuments,  \* the address of the documents array in heap, 0 without one
    heapFirst,      \* the address of the array the first call returned, if made
    heapAgain,      \* the address of the array the repeated call returned
    pdResult        \* what a direct call of processDocument returned, if made

appVars ==
    <<documents, messages, inputValue, isProcessing, lastAction, lastRetrieval, pc,
      userQuery, closureDocs, action, retrieved, calls, classifyResp, generateResp,
      outcome>>

heapVars == <<heap, heapDocuments, heapFirst, heapAgain>>

fnVars == <<fnQuery, fnDocs, fnTopK, fnScored, fnResult, fnDone, fnBetween, fnAgain, heapVars>>

pdVars == <<pdResult>>

vars == <<appVars, fnVars, pdVars>>

\* the message of the catch block
ErrorNotice == "Error: Failed to process your request. Check your API key and connection."

UserMessage(query) ==
    [role |-> "user", content |-> query, action |-> <<>>, sources |-> <<>>]

\* newAiMessage
AiMessage(text, act, srcs) ==
    [role |-> "assistant", content |-> text, action |-> <<act>>, sources |-> <<srcs>>]

\* ErrorMessage carrying the action and the sources of the turn
AsErrorMessageWithProvenance ==
    [role |-> "assistant", content |-> ErrorNotice, action |-> action,
     sources |-> <<retrieved>>]

\* errorMessage: neither action nor sources
ErrorMessage ==
    [role |-> "assistant", content |-> ErrorNotice, action |-> <<>>, sources |-> <<>>]

AppInit ==
    /\ documents = <<>>
    /\ messages = <<>>
    /\ inputValue = <<>>
    /\ isProcessing = FALSE
    /\ lastAction = <<>>
    /\ lastRetrieval = <<>>
    /\ pc = "idle"
    /\ userQuery = <<>>
    /\ closureDocs = <<>>
    /\ action = <<>>
    /\ retrieved = <<>>
    /\ calls = <<>>
    /\ classifyResp = <<>>
    /\ generateResp = <<>>
    /\ outcome = "none"

\* the repeated-retrieval harness holds no objects
HeapIdle ==
    /\ heap = <<>>
    /\ heapDocuments = 0
    /\ heapFirst = <<>>
    /\ heapAgain = <<>>

FnIdle ==
    /\ fnQuery = <<>>
    /\ fnDocs = <<>>
    /\ fnTopK = <<>>
    /\ fnScored = <<>>
    /\ fnResult = <<>>
    /\ fnDone = FALSE
    /\ fnBetween = 0
    /\ fnAgain = <<>>
    /\ HeapIdle

\* no direct call of processDocument was made
PdIdle == pdResult = <<>>

Init == AppInit /\ FnIdle /\ PdIdle

\* queries accepted so far
Turns == Cardinality({i \in 1..Len(messages) : messages[i].role = "user"})

\* onChange of the query box: setInputValue(e.target.value)
SetInput(q) ==
    /\ ~isProcessing
    /\ documents # <<>>
    /\ inputValue' = q
    /\ UNCHANGED <<documents, messages, isProcessing, lastAction, lastRetrieval, pc,
                   userQuery, closureDocs, action, retrieved, calls, classifyResp,
                   generateResp, outcome>>
    /\ UNCHANGED <<fnVars, pdVars>>

\* handleAddDocument with the form's title and content; r is the value of
\* Math.random().toString(36) inside processDocument
HandleAddDocument(title, content, r) ==
    /\ Len(documents) < MaxDocs
    /\ IF title = "" \/ content = <<>>
       THEN UNCHANGED documents
       ELSE documents' = Append(documents, ProcessDocument(title, content, r))
    /\ UNCHANGED <<messages, inputValue, isProcessing, lastAction, lastRetrieval, pc,
                   userQuery, closureDocs, action, retrieved, calls, classifyResp,
                   generateResp, outcome>>
    /\ UNCHANGED <<fnVars, pdVars>>

\* deleteDocument
DeleteDocument(id) ==
    /\ documents' = SelectSeq(documents, LAMBDA d : d.id # id)
    /\ UNCHANGED <<messages, inputValue, isProcessing, lastAction, lastRetrieval, pc,
                   userQuery, closureDocs, action, retrieved, calls, classifyResp,
                   generateResp, outcome>>
    /\ UNCHANGED <<fnVars, pdVars>>

\* the guard of handleSendMessage: if (!inputValue.trim() || isProcessing) return
Accepts(input, processing) == Len(Trim(input)) > 0 /\ ~processing

\* HandleSendMessage without setIsProcessing(true)
AsHandleSendMessageNotBusy ==
    /\ pc = "idle" \/ isProcessing
    /\ IF ~Accepts(inputValue, isProcessing)
       THEN UNCHANGED appVars
       ELSE /\ Turns < MaxTurns
            /\ userQuery' = inputValue
            /\ inputValue' = <<>>
            /\ UNCHANGED isProcessing
            /\ messages' = Append(messages, UserMessage(inputValue))
            /\ closureDocs' = documents
            /\ calls' = <<"classify">>
            /\ classifyResp' = <<>>
            /\ generateResp' = <<>>
            /\ action' = <<>>
            /\ retrieved' = <<>>
            /\ outcome' = "pending"
            /\ pc' = "classifying"
            /\ UNCHANGED <<documents, lastAction, lastRetrieval>>
    /\ UNCHANGED <<fnVars, pdVars>>

\* handleSendMessage up to its first suspension, the await of determineAction,
\* which has issued the classification call.  The handler keeps the documents
\* of the render it was created in.
HandleSendMessage ==
    /\ pc = "idle" \/ isProcessing
    /\ IF ~Accepts(inputValue, isProcessing)
       THEN UNCHANGED appVars
       ELSE /\ Turns < MaxTurns
            /\ userQuery' = inputValue
            /\ inputValue' = <<>>
            /\ isProcessing' = TRUE
            /\ messages' = Append(messages, UserMessage(inputValue))
            /\ closureDocs' = documents
            /\ calls' = <<"classify">>
            /\ classifyResp' = <<>>
            /\ generateResp' = <<>>
            /\ action' = <<>>
            /\ retrieved' = <<>>
            /\ outcome' = "pending"
            /\ pc' = "classifying"
            /\ UNCHANGED <<documents, lastAction, lastRetrieval>>
    /\ UNCHANGED <<fnVars, pdVars>>

\* the handler returns: its locals and the render it closed over are gone
Returns ==
    /\ userQuery' = <<>>
    /\ closureDocs' = <<>>
    /\ action' = <<>>
    /\ retrieved' = <<>>
    /\ outcome' = "fulfilled"
    /\ pc' = "idle"

\* CatchFinally without the finally block
AsCatchWithoutFinally ==
    /\ messages' = Append(messages, ErrorMessage)
    /\ UNCHANGED isProcessing
    /\ Returns

\* the catch block and the finally block
CatchFinally ==
    /\ messages' = Append(messages, ErrorMessage)
    /\ isProcessing' = FALSE
    /\ Returns

\* the classification call settles with resp, and the handler runs from line 74
\* to its next suspension, the await of generateResponse, or to its end
ClassifySettles(resp) ==
    /\ pc = "classifying"
    /\ classifyResp' = <<resp>>
    /\ LET decided == DetermineAction(resp)
           found == RetrieveChunks(userQuery, closureDocs, DefaultTopK)
       IN  IF decided.threw
           THEN \* the await on line 74 throws
                /\ CatchFinally
                /\ UNCHANGED <<lastAction, lastRetrieval, calls>>
           ELSE /\ lastAction' = decided.value
                /\ lastRetrieval' = found
                /\ IF decided.value = <<>>
                   THEN \* action is null: action.type on line 85 throws
                        /\ calls' = calls \o <<"retrieve">>
                        /\ CatchFinally
                   ELSE /\ calls' = calls \o <<"retrieve", "generate">>
                        /\ action' = decided.value
                        /\ retrieved' = found
                        /\ pc' = "generating"
                        /\ UNCHANGED <<messages, isProcessing, outcome, userQuery,
                                       closureDocs>>
    /\ UNCHANGED <<documents, inputValue, generateResp>>
    /\ UNCHANGED <<fnVars, pdVars>>

\* GenerateSettles with one retry of a rejected generation call
AsGenerateSettlesRetrying(resp) ==
    /\ pc = "generating"
    /\ LET generated == GenerateResponse(resp)
       IN  IF generated.threw /\ calls = <<"classify", "retrieve", "generate">>
           THEN /\ calls' = Append(calls, "generate")
                /\ UNCHANGED <<messages, isProcessing, userQuery, closureDocs, action,
                               retrieved, outcome, pc, generateResp>>
           ELSE /\ generateResp' = <<resp>>
                /\ calls' = calls
                /\ IF generated.threw
                   THEN CatchFinally
                   ELSE /\ messages' =
                               Append(messages, AiMessage(generated.value, action[1], retrieved))
                        /\ isProcessing' = FALSE
                        /\ Returns
    /\ UNCHANGED <<documents, inputValue, lastAction, lastRetrieval, classifyResp>>
    /\ UNCHANGED <<fnVars, pdVars>>

\* the generation call settles with resp, and the handler runs from line 93 to
\* its end
GenerateSettles(resp) ==
    /\ pc = "generating"
    /\ generateResp' = <<resp>>
    /\ LET generated == GenerateResponse(resp)
       IN  IF generated.threw
           THEN CatchFinally
           ELSE /\ messages' = Append(messages, AiMessage(generated.value, action[1], retrieved))
                /\ isProcessing' = FALSE
                /\ Returns
    /\ UNCHANGED <<documents, inputValue, lastAction, lastRetrieval, calls, classifyResp>>
    /\ UNCHANGED <<fnVars, pdVars>>

Next ==
    \/ \E q \in Queries : SetInput(q)
    \/ \E t \in Titles, c \in Contents, r \in RandomStrings : HandleAddDocument(t, c, r)
    \/ \E id \in DocIds : DeleteDocument(id)
    \/ HandleSendMessage
    \/ \E resp \in ClassifyResponses : ClassifySettles(resp)
    \/ \E resp \in GenerateResponses : GenerateSettles(resp)

Spec == Init /\ [][Next]_vars

\* ------------------------------------------------------------------------
\* The retrieval harness: retrieveChunks called directly, on every query up
\* to MaxQueryLen characters over QueryAlphabet and on document collections
\* that processDocument built

QueryAlphabet == {"a", "B", " "}

BoundedSeq(S, n) == UNION {[1..k -> S] : k \in 0..n}

FnQueries == BoundedSeq(QueryAlphabet, MaxQueryLen)

\* processDocument("Budget", "aab Baa\n\nab")
FnDoc1 ==
    ProcessDocument("Budget",
                    <<"a", "a", "b", " ", "B", "a", "a", "\n", "\n", "a", "b">>,
                    <<"0", ".", "4", "f", "z", "y", "o", "8", "2", "m", "v", "y", "r">>)

\* processDocument("Notes", "aaaa\n\nbab aab\n\n\nBAA")
FnDoc2 ==
    ProcessDocument("Notes",
                    <<"a", "a", "a", "a", "\n", "\n", "b", "a", "b", " ", "a", "a", "b",
                      "\n", "\n", "\n", "B", "A", "A">>,
                    <<"0", ".", "i">>)

\* processDocument("Plan", "aa a\n\naba baa aab")
FnDoc3 ==
    ProcessDocument("Plan",
                    <<"a", "a", " ", "a", "\n", "\n", "a", "b", "a", " ", "b", "a", "a",
                      " ", "a", "a", "b">>,
                    <<"0", ".", "a", "1", "b", "2", "c", "3", "d", "4">>)

FnDocLists == {<<>>, <<FnDoc1>>, <<FnDoc2, FnDoc1>>, <<FnDoc1, FnDoc2, FnDoc3>>}

FnInit ==
    /\ AppInit
    /\ fnQuery \in FnQueries
    /\ fnDocs \in FnDocLists
    /\ fnTopK = <<>>
    /\ fnScored = <<>>
    /\ fnResult = <<>>
    /\ fnDone = FALSE
    /\ fnBetween = 0
    /\ fnAgain = <<>>
    /\ HeapIdle
    /\ PdIdle

\* the third argument of a call: left out (<<>>) or a number
FnTopKs == {<<>>} \cup {<<k>> : k \in 0..MaxTopK}

\* retrieveChunks(fnQuery, fnDocs) or retrieveChunks(fnQuery, fnDocs, topK[1]):
\* fnScored keeps the scoredChunks of the call, fnResult what it returned
CallRetrieveChunks(topK) ==
    /\ ~fnDone
    /\ fnTopK' = topK
    /\ fnScored' = ScoredChunks(fnQuery, fnDocs)
    /\ fnResult' = RetrieveChunks(fnQuery, fnDocs, IF topK = <<>> THEN DefaultTopK ELSE topK[1])
    /\ fnDone' = TRUE
    /\ UNCHANGED <<fnQuery, fnDocs, fnBetween, fnAgain, heapVars>>
    /\ UNCHANGED <<appVars, pdVars>>

FnNext == \E topK \in FnTopKs : CallRetrieveChunks(topK)

FnSpec == FnInit /\ [][FnNext]_vars

\* The harness of repeated retrieval, on objects: the documents that
\* processDocument built are stored as objects; retrieveChunks is called on
\* them, then up to MaxBetween times with other queries, then once more with
\* the arguments of the first call

RpQueries == BoundedSeq(QueryAlphabet, MaxRepeatQueryLen)

\* "aab" and "Baa ab"
RpOtherQueries == {<<"a", "a", "b">>, <<"B", "a", "a", " ", "a", "b">>}

RpInit ==
    /\ AppInit
    /\ fnQuery \in RpQueries
    /\ fnDocs \in FnDocLists
    /\ fnTopK = <<>>
    /\ fnScored = <<>>
    /\ fnResult = <<>>
    /\ fnDone = FALSE
    /\ fnBetween = 0
    /\ fnAgain = <<>>
    /\ LET store == StoreDocuments(fnDocs, <<>>, <<>>)
       IN  heap = store.heap /\ heapDocuments = store.at
    /\ heapFirst = <<>>
    /\ heapAgain = <<>>
    /\ PdIdle

\* the parameter topK of a call: the default when the argument is left out
TopKOf(topK) == IF topK = <<>> THEN DefaultTopK ELSE topK[1]

\* the first call, retrieveChunks(fnQuery, documents) or
\* retrieveChunks(fnQuery, documents, topK[1]); the caller keeps the array
RetrieveFirst(topK) ==
    /\ ~fnDone
    /\ LET call == RetrieveChunksOnHeap(heap, heapDocuments, fnQuery, TopKOf(topK))
       IN  /\ heap' = call.heap
           /\ heapFirst' = <<call.at>>
           /\ fnResult' = ChunksAt(call.heap, call.at)
    /\ fnTopK' = topK
    /\ fnDone' = TRUE
    /\ UNCHANGED <<fnQuery, fnDocs, fnScored, fnBetween, fnAgain, heapDocuments, heapAgain>>
    /\ UNCHANGED <<appVars, pdVars>>

\* retrieveChunks(query, documents, topK[1]) with its result dropped: the
\* objects the call made are garbage, the older ones stay as the call left them
RetrieveBetween(query, topK) ==
    /\ fnDone
    /\ fnAgain = <<>>
    /\ fnBetween < MaxBetween
    /\ fnBetween' = fnBetween + 1
    /\ LET call == RetrieveChunksOnHeap(heap, heapDocuments, query, TopKOf(topK))
       IN  heap' = SubSeq(call.heap, 1, Len(heap))
    /\ UNCHANGED <<fnQuery, fnDocs, fnTopK, fnScored, fnResult, fnDone, fnAgain,
                   heapDocuments, heapFirst, heapAgain>>
    /\ UNCHANGED <<appVars, pdVars>>

\* the first call once more, on the objects as they are now
RepeatRetrieveChunks ==
    /\ fnDone
    /\ fnAgain = <<>>
    /\ LET call == RetrieveChunksOnHeap(heap, heapDocuments, fnQuery, TopKOf(fnTopK))
       IN  /\ heap' = call.heap
           /\ heapAgain' = <<call.at>>
           /\ fnAgain' = <<ChunksAt(call.heap, call.at)>>
    /\ UNCHANGED <<fnQuery, fnDocs, fnTopK, fnScored, fnResult, fnDone, fnBetween,
                   heapDocuments, heapFirst>>
    /\ UNCHANGED <<appVars, pdVars>>

RpNext ==
    \/ \E topK \in FnTopKs : RetrieveFirst(topK)
    \/ \E query \in RpOtherQueries, topK \in FnTopKs : RetrieveBetween(query, topK)
    \/ RepeatRetrieveChunks

RpSpec == RpInit /\ [][RpNext]_vars

\* The harness of processDocument: one direct call, on a content of up to
\* MaxContentLen characters over PdAlphabet

PdAlphabet == {"a", " ", "\n"}

PdContents == BoundedSeq(PdAlphabet, MaxContentLen)

\* processDocument(title, content), with r what Math.random().toString(36)
\* returned; pdResult keeps the document it returned
CallProcessDocument(title, content, r) ==
    /\ pdResult = <<>>
    /\ pdResult' = <<ProcessDocument(title, content, r)>>
    /\ UNCHANGED <<appVars, fnVars>>

PdNext ==
    \E title \in Titles, content \in PdContents, r \in RandomStrings :
        CallProcessDocument(title, content, r)

PdSpec == Init /\ [][PdNext]_vars

\* the external calls settle: each one eventually resolves or rejects
LiveSpec ==
    /\ Spec
    /\ WF_vars(\E resp \in ClassifyResponses : ClassifySettles(resp))
    /\ WF_vars(\E resp \in GenerateResponses : GenerateSettles(resp))

\* ------------------------------------------------------------------------
\* Properties

\* the responses of the classification call that carry a conforming payload
ConformingTexts == {"{\"type\":\"REPORT\",\"reasoning\":\"asks for a deep dive\"}"}

ClassificationFailed(resp) ==
    \/ ~resp.ok
    \/ resp.text = <<>>
    \/ resp.text[1] \notin ConformingTexts

AllCalls == <<"classify", "retrieve", "generate">>

HeldIds == {documents[i].id : i \in 1..Len(documents)}

LastMessage == messages[Len(messages)]

\* a turn has run to its end and no other has started
TurnFinished == pc = "idle" /\ classifyResp # <<>>

\* C1: determineAction never propagates an error, and returns exactly the
\* default action {ANSWER, "Defaulting to basic answer."} whenever the
\* classification call failed or delivered a non-conforming payload; every
\* action it returns has one of the four types.  Once the call has settled,
\* determineAction has returned (retrieval has run) and lastAction holds what
\* it returned.
C1_ClassifierFallsBack ==
    classifyResp # <<>> =>
        /\ Len(calls) >= 2
        /\ Len(lastAction) = 1
        /\ lastAction[1].type \in AgentActionType
        /\ ClassificationFailed(classifyResp[1]) => lastAction = <<DefaultAction>>

\* C2: a failure of the classification step alone never gives an error turn:
\* when classification failed and generation did not, the turn ran retrieval
\* and generation with the default action and its assistant message is not
\* the error notice.
C2_ClassificationFailureNotSurfaced ==
    (TurnFinished /\ ClassificationFailed(classifyResp[1]) /\ generateResp # <<Rejected>>) =>
        /\ calls = AllCalls
        /\ LastMessage.role = "assistant"
        /\ LastMessage.content # ErrorNotice
        /\ LastMessage.action = <<DefaultAction>>

\* the step in which the handler runs retrieveChunks
RetrievalStep == pc = "classifying" /\ Len(calls') >= 2

\* the step in which the handler appends its assistant message
AssistantAppended ==
    /\ Len(messages') = Len(messages) + 1
    /\ messages'[Len(messages')].role = "assistant"

ChunksOfHeld(chunks) == \A i \in 1..Len(chunks) : chunks[i].docId \in HeldIds

\* C3: a retrieval step never returns a chunk of a document that has been
\* removed, and no assistant message lists one as a source when it is
\* appended, also when the query was submitted before the removal.  A chunk
\* whose docId no held document has is a chunk of a removed document.
C3_NoChunkOfDeletedDocument ==
    [][/\ RetrievalStep => ChunksOfHeld(lastRetrieval')
       /\ (AssistantAppended /\ messages'[Len(messages')].sources # <<>>) =>
              ChunksOfHeld(messages'[Len(messages')].sources[1])]_vars

\* C4: the ids of the held documents are pairwise different, so that
\* deleteDocument(id) removes at most one document.
C4_DocumentIdsUnique ==
    /\ \A i, j \in 1..Len(documents) : documents[i].id = documents[j].id => i = j
    /\ \A id \in DocIds : Len(documents) - Len(SelectSeq(documents, LAMBDA d : d.id # id)) <= 1

\* C5: the chunk collection that retrieval scores has no orphans (every chunk's
\* docId is the id of the held document whose chunk it is) and no duplicates
\* (no chunk id occurs twice), and deleting an id that is not held changes
\* nothing.
C5_IndexConsistent ==
    /\ [](LET allChunks == AllChunks(documents)
          IN  /\ \A i \in 1..Len(documents) : \A k \in 1..Len(documents[i].chunks) :
                    documents[i].chunks[k].docId = documents[i].id
              /\ \A i \in 1..Len(allChunks) : allChunks[i].docId \in HeldIds
              /\ \A i, j \in 1..Len(allChunks) : allChunks[i].id = allChunks[j].id => i = j)
    /\ [][\A id \in DocIds : (id \notin HeldIds /\ DeleteDocument(id)) => UNCHANGED vars]_vars

\* C6: when the generation call fails, the turn ends with exactly one
\* assistant message, the fixed error notice without action and without
\* sources, and the promise of handleSendMessage is fulfilled, not rejected.
C6_GenerationFailureSurfaced ==
    (TurnFinished /\ generateResp = <<Rejected>>) =>
        /\ Len(messages) >= 2
        /\ messages[Len(messages) - 1].role = "user"
        /\ LastMessage.role = "assistant"
        /\ LastMessage.content = ErrorNotice
        /\ LastMessage.action = <<>>
        /\ LastMessage.sources = <<>>
        /\ Cardinality({i \in 1..Len(messages) : messages[i].role = "assistant"}) = Turns
        /\ outcome = "fulfilled"
        /\ ~isProcessing

\* C6 witness: a turn has ended on a rejected generation call
C6_Witness == TurnFinished /\ generateResp = <<Rejected>> /\ calls = AllCalls

\* the steps of a turn run in the order classification, retrieval, generation
IsPrefix(p, q) == Len(p) <= Len(q) /\ SubSeq(q, 1, Len(p)) = p

\* C9: the steps of a turn run strictly in the order classification,
\* retrieval, generation and none is repeated: the classification call is
\* issued once, retrieval runs only after it has settled, the generation call
\* is issued at most once and only after retrieval, and no call is issued
\* after a call has failed.
C9_SequentialNoRetry ==
    /\ IsPrefix(calls, AllCalls)
    /\ pc = "classifying" => (calls = <<"classify">> /\ classifyResp = <<>>)
    /\ pc = "generating" => (calls = AllCalls /\ classifyResp # <<>> /\ generateResp = <<>>)
    /\ Len(calls) >= 2 => classifyResp # <<>>
    /\ classifyResp = <<Rejected>> => calls = <<"classify">>
    /\ generateResp # <<>> => (calls = AllCalls /\ pc = "idle")
    /\ (pc = "idle" /\ calls # <<>>) => classifyResp # <<>>

\* C9 witness: a whole turn has run, and its generation call failed
C9_Witness == pc = "idle" /\ calls = AllCalls /\ generateResp = <<Rejected>> /\ Turns = 2

\* C10: every accepted query finishes its turn when the external calls
\* settle: isProcessing goes back to false, after a success and after a failure
\* of either call, and the guard of handleSendMessage then accepts every
\* non-blank query.
C10_TurnEventuallyFinishes ==
    isProcessing ~>
        (/\ ~isProcessing
         /\ pc = "idle"
         /\ \A q \in Queries : Len(Trim(q)) > 0 => Accepts(q, isProcessing))

\* C10 witness: after a turn that failed, a second query has been accepted
C10_Witness ==
    /\ Len(messages) = 3
    /\ messages[2].content = ErrorNotice
    /\ messages[3].role = "user"
    /\ isProcessing
    /\ pc = "classifying"

\* the places where a maximal run of word characters starts in lq
RunStarts(lq) ==
    {i \in 1..Len(lq) : lq[i] \in WordChars /\ (i = 1 \/ lq[i - 1] \notin WordChars)}

\* the place where the run that starts at i ends
RunEnd(lq, i) ==
    CHOOSE j \in i..Len(lq) :
        /\ \A k \in i..j : lq[k] \in WordChars
        /\ j = Len(lq) \/ lq[j + 1] \notin WordChars

\* the tokens of the lowercased query lq, each with the place where it stands:
\* the maximal runs of word characters, of 3 characters or more
TokensWithPlace(lq) ==
    {tp \in {<<SubSeq(lq, i, RunEnd(lq, i)), i>> : i \in RunStarts(lq)} : Len(tp[1]) >= 3}

\* the tokens, by place, that occur in the lowercased text
Matching(tokens, text) ==
    LET lower == ToLowerCase(text) IN {tp \in tokens : Includes(lower, tp[1])}

\* the tokens themselves, each once
Distinct(tokens) == {tp[1] : tp \in tokens}

\* every chunk of the documents is scored, in order
ScoresAllChunks ==
    LET allChunks == AllChunks(fnDocs)
    IN  /\ Len(fnScored) = Len(allChunks)
        /\ \A i \in 1..Len(fnScored) :
              /\ fnScored[i].id = allChunks[i].id
              /\ fnScored[i].text = allChunks[i].text

\* C7 as stated: the score of a chunk is the number of distinct query tokens
\* that occur in the chunk's lowercased text.
C7_ScoreCountsDistinctTokens ==
    fnDone =>
        LET tokens == TokensWithPlace(ToLowerCase(fnQuery))
        IN  /\ ScoresAllChunks
            /\ \A i \in 1..Len(fnScored) :
                  fnScored[i].score =
                      Cardinality(Distinct(Matching(tokens, fnScored[i].text)))

\* C7 as amended: the score of a chunk is the number of query tokens, each
\* occurrence in the query counted, that occur in the chunk's lowercased text;
\* a token adds 1 for each time it stands in the query, however often it
\* occurs in the chunk.
C7_ScoreCountsTokenOccurrences ==
    fnDone =>
        LET tokens == TokensWithPlace(ToLowerCase(fnQuery))
        IN  /\ ScoresAllChunks
            /\ \A i \in 1..Len(fnScored) :
                  fnScored[i].score = Cardinality(Matching(tokens, fnScored[i].text))

\* the places in the text where the token starts
Occurrences(text, token) ==
    {k \in 0..(Len(text) - Len(token)) : SubSeq(text, k + 1, k + Len(token)) = token}

\* C7 witness: a chunk with score 2 for one token that stands twice in the
\* query and occurs at two places in the chunk
C7_Witness ==
    /\ fnDone
    /\ LET tokens == TokensWithPlace(ToLowerCase(fnQuery))
       IN  \E i \in 1..Len(fnScored) :
              /\ fnScored[i].score = 2
              /\ Cardinality(Distinct(Matching(tokens, fnScored[i].text))) = 1
              /\ \E tp \in Matching(tokens, fnScored[i].text) :
                    Cardinality(Occurrences(ToLowerCase(fnScored[i].text), tp[1])) = 2

\* the chunks with a score above 0, by their place in the chunk collection
Positive == {i \in 1..Len(fnScored) : fnScored[i].score > 0}

\* chunk j is ranked before chunk i: a higher score, or the same score and an
\* earlier place
RankedBefore(j, i) ==
    \/ fnScored[j].score > fnScored[i].score
    \/ fnScored[j].score = fnScored[i].score /\ j < i

Rank(i) == Cardinality({j \in Positive : RankedBefore(j, i)})

\* the topK of the call: 3 when the argument is left out
FnLimit == IF fnTopK = <<>> THEN 3 ELSE fnTopK[1]

\* C8: the result of retrieveChunks is the first topK chunks with a score above
\* 0, ordered by score descending, ties in the order of the chunk collection:
\* no chunk with score 0, a higher score before a lower one, and never more
\* than topK chunks (3 by default).
C8_RankedAndCapped ==
    fnDone =>
        /\ Len(fnResult) <= FnLimit
        /\ Len(fnResult) = (IF Cardinality(Positive) < FnLimit THEN Cardinality(Positive)
                                                                ELSE FnLimit)
        /\ \A k \in 1..Len(fnResult) : fnResult[k].score > 0
        /\ \A k \in 1..(Len(fnResult) - 1) : fnResult[k].score >= fnResult[k + 1].score
        /\ \A i \in Positive : Rank(i) < FnLimit => fnResult[Rank(i) + 1] = fnScored[i]

\* C8 witness: a call with the default topK that cut the list at 3, left out a
\* chunk with score 0, and returned chunks of two scores and a tie
C8_Witness ==
    /\ fnDone
    /\ fnTopK = <<>>
    /\ Cardinality(Positive) > 3
    /\ Len(fnResult) = 3
    /\ \E i \in 1..Len(fnScored) : fnScored[i].score = 0
    /\ fnResult[1].score > fnResult[3].score
    /\ \E k \in 1..2 : fnResult[k].score = fnResult[k + 1].score

\* the places of content inside a run of two or more newlines
Separators(content) ==
    {i \in 1..Len(content) :
        /\ content[i] = "\n"
        /\ \/ i > 1 /\ content[i - 1] = "\n"
           \/ i < Len(content) /\ content[i + 1] = "\n"}

\* the non-empty pieces, as <<first place, last place>>: the maximal stretches
\* of content without a separator
PieceSpans(content) ==
    LET n == Len(content)
        sep == Separators(content)
    IN  {sp \in (1..n) \X (1..n) :
            /\ sp[1] <= sp[2]
            /\ \A k \in sp[1]..sp[2] : k \notin sep
            /\ sp[1] = 1 \/ (sp[1] - 1) \in sep
            /\ sp[2] = n \/ (sp[2] + 1) \in sep}

\* the places of a piece that hold something else than white space
Inked(content, sp) == {k \in sp[1]..sp[2] : content[k] \notin WhiteSpace}

Surviving(content) == {sp \in PieceSpans(content) : Inked(content, sp) # {}}

\* the piece without the white space at its ends
Trimmed(content, sp) ==
    LET ink == Inked(content, sp)
        first == CHOOSE k \in ink : \A m \in ink : k <= m
        last == CHOOSE k \in ink : \A m \in ink : m <= k
    IN  SubSeq(content, first, last)

\* C11: the chunks of processDocument(title, content) are the pieces of content
\* between its runs of two or more newlines that hold more than white space, in
\* their order, each trimmed and never empty, with docId the id of the document
\* and id "<id>-chunk-<i>", i counting the surviving pieces from 0; a content
\* without a run gives one chunk, a content of white space only gives none
C11_ChunksAreTrimmedParagraphs ==
    pdResult # <<>> =>
        LET doc == pdResult[1]
            content == doc.content
            spans == Surviving(content)
        IN  /\ Len(doc.chunks) = Cardinality(spans)
            /\ \A sp \in spans :
                  LET i == Cardinality({t \in spans : t[1] < sp[1]})
                      chunk == doc.chunks[i + 1]
                  IN  /\ chunk.text = Trimmed(content, sp)
                      /\ chunk.text # <<>>
                      /\ chunk.docId = doc.id
                      /\ chunk.id = (doc.id \o <<"-", "c", "h", "u", "n", "k", "-">>)
                                        \o NatToString(i)
            /\ \A i \in 1..Len(doc.chunks) : doc.chunks[i].text # <<>>
            /\ (Separators(content) = {} /\ Trim(content) # <<>>) => Len(doc.chunks) = 1
            /\ Trim(content) = <<>> => doc.chunks = <<>>

\* a call whose content starts with white space and has three non-empty
\* pieces, of which one holds white space only and is dropped, so that the
\* second chunk is the third piece
C11_Witness ==
    /\ pdResult # <<>>
    /\ LET doc == pdResult[1]
       IN  /\ doc.id # <<>>
           /\ Len(doc.chunks) = 2
           /\ Cardinality(PieceSpans(doc.content)) = 3
           /\ doc.content[1] \in WhiteSpace
           /\ doc.chunks[2].id = (doc.id \o <<"-", "c", "h", "u", "n", "k", "-", "1">>)

\* the tokens of the query shorter than 3 characters, as <<first place, last place>>
ShortTokenSpans(query) ==
    {sp \in {<<i, RunEnd(query, i)>> : i \in RunStarts(query)} : sp[2] - sp[1] + 1 < 3}

\* the query with the characters of its short tokens taken out; what stood
\* between the tokens stays
WithoutShortTokens(query) ==
    LET short == ShortTokenSpans(query)
        kept == {i \in 1..Len(query) : \A sp \in short : i < sp[1] \/ i > sp[2]}
    IN  [k \in 1..Cardinality(kept) |->
            query[CHOOSE i \in kept : Cardinality({j \in kept : j < i}) = k - 1]]

\* C12: retrieveChunks returns for a query what it returns for the query
\* without its tokens of fewer than 3 characters, and returns nothing for a
\* query all of whose tokens are that short
C12_ShortTokensIgnored ==
    fnDone =>
        LET short == ShortTokenSpans(fnQuery)
            stripped == WithoutShortTokens(fnQuery)
        IN  /\ short # {} => fnResult = RetrieveChunks(stripped, fnDocs, FnLimit)
            /\ Cardinality(short) = Cardinality(RunStarts(fnQuery)) => fnResult = <<>>

\* a call that returned chunks for a query with a long token and a short token,
\* the short token standing in the text of a returned chunk
C12_Witness ==
    /\ fnDone
    /\ fnResult # <<>>
    /\ \E sp \in ShortTokenSpans(fnQuery) :
          \E i \in 1..Len(fnResult) :
              Includes(ToLowerCase(fnResult[i].text),
                       ToLowerCase(SubSeq(fnQuery, sp[1], sp[2])))

\* the addresses of the stored objects: the documents array, the documents,
\* their chunks arrays and their chunks
StoredDocuments(h, root) == {h[root].items[i] : i \in 1..Len(h[root].items)}

StoredChunks(h, root) ==
    UNION {{h[h[d].chunks].items[i] : i \in 1..Len(h[h[d].chunks].items)} :
              d \in StoredDocuments(h, root)}

Stored(h, root) ==
    {root} \cup StoredDocuments(h, root)
        \cup {h[d].chunks : d \in StoredDocuments(h, root)}
        \cup StoredChunks(h, root)

\* the stored documents as the application reads them, chunk by chunk
StoredView(h, root) ==
    [i \in 1..Len(h[root].items) |->
        LET doc == h[h[root].items[i]]
        IN  [id |-> doc.id, title |-> doc.title, content |-> doc.content,
             chunks |-> [k \in 1..Len(h[doc.chunks].items) |-> h[h[doc.chunks].items[k]]]]]

\* the chunk objects of the arrays the calls returned
Returned(h, arrays) == UNION {{h[a].items[i] : i \in 1..Len(h[a].items)} : a \in arrays}

\* C13: a call of retrieveChunks leaves the document collection and every
\* stored chunk as they were: no stored object is written, no stored chunk gets
\* a score, and the chunks a call returns are copies that carry the scores; what
\* a call returns is a function of the query, the documents and topK alone, and
\* the call repeated with the same query, documents and topK returns the same
\* sequence of chunks whatever retrievals ran in between
C13_RetrievalIsPure ==
    [][/\ heapDocuments' = heapDocuments
       /\ \A a \in Stored(heap, heapDocuments) : heap'[a] = heap[a]
       /\ StoredView(heap', heapDocuments') = StoredView(heap, heapDocuments)
       /\ \A a \in StoredChunks(heap', heapDocuments') : heap'[a].score = <<>>
       /\ \A a \in Returned(heap', Range(heapFirst') \cup Range(heapAgain')) :
             /\ a \notin Stored(heap', heapDocuments')
             /\ heap'[a].score # <<>>
       /\ fnDone' => fnResult' = RetrieveChunks(fnQuery', StoredView(heap', heapDocuments'),
                                                TopKOf(fnTopK'))
       /\ fnAgain' # <<>> => fnAgain'[1] = fnResult']_vars

\* the call was repeated after other retrievals had run on the documents, and
\* returned, in an array of its own, the two or more chunks of the first call
C13_Witness ==
    /\ fnDone
    /\ fnBetween > 0
    /\ fnAgain # <<>>
    /\ Len(fnAgain[1]) >= 2
    /\ fnAgain[1] = fnResult
    /\ heapAgain # heapFirst
    /\ Returned(heap, Range(heapAgain)) \cap Returned(heap, Range(heapFirst)) = {}

\* the transcript is (user, assistant) pairs, then at most one user message
Paired ==
    \A i \in 1..Len(messages) :
        messages[i].role = (IF i % 2 = 1 THEN "user" ELSE "assistant")

\* the input is empty or white space only
Blank(input) == \A i \in 1..Len(input) : input[i] \in WhiteSpace

\* C14: the transcript is a sequence of (user message, assistant message)
\* pairs followed by at most one unanswered user message, which is there exactly
\* while isProcessing is true, and then exactly one handler is running; a call
\* of handleSendMessage while isProcessing is true or with blank input appends
\* nothing and starts no external call; no step changes or removes a message
C14_OneQueryInFlightTranscriptPaired ==
    /\ [](/\ Paired
          /\ isProcessing <=> (Len(messages) % 2 = 1)
          /\ isProcessing <=> (pc # "idle"))
    /\ [][/\ IsPrefix(messages, messages')
          /\ (HandleSendMessage /\ (isProcessing \/ Blank(inputValue)))
                => (messages' = messages /\ calls' = calls)]_vars

\* a turn was answered and a second one is in flight, its user message
\* unanswered: a call of handleSendMessage now is one while isProcessing is true
C14_Witness ==
    /\ Len(messages) = 3
    /\ messages[2].role = "assistant"
    /\ messages[3].role = "user"
    /\ isProcessing
    /\ pc = "generating"
    /\ Blank(inputValue)

====
